---- MODULE Spec2Model ----
(***************************************************************************)
(* The three translation handlers of the repository:                       *)
(*   "index"     src/index.js          multipart form, axios               *)
(*   "part_000"  src/unnamed/part_000  JSON body, https.request, ?lang=    *)
(*   "part_001"  src/unnamed/part_001  JSON body, https.request, body.lang *)
(* One invocation is modelled from the arrival of the request to the       *)
(* assignment of context.res.  The completion endpoint is the environment: *)
(* it may fail before answering, answer with any status and body, reset    *)
(* the connection while the body streams, or close it early.               *)
(*                                                                         *)
(* Strings are sequences of code points.  An optional value (a JavaScript  *)
(* value that may be undefined) is <<>> when absent and <<v>> when present.*)
(* The environment variables naming the endpoint are taken to be set, so   *)
(* that building the outbound request does not throw.                      *)
(***************************************************************************)
EXTENDS Integers, Sequences, FiniteSets, TLC

VARIABLES variant, req, pc, call, upStatus, upBody, prompt, calls, res, resWrites

vars == <<variant, req, pc, call, upStatus, upBody, prompt, calls, res, resWrites>>

(* ------------------------------ bounds -------------------------------- *)

\* longest `file` string of a request
MaxFileLen == 4
\* longest `text` string of a request
MaxTextLen == 1
\* longest choices[0].text the endpoint returns
MaxOutLen == 3

(* ------------------------------ strings ------------------------------- *)

Absent == <<>>

Some(v) == <<v>>

\* JavaScript truthiness of an optional string: undefined and "" are falsy
Truthy(o) == o # Absent /\ Len(o[1]) > 0

SeqsUpTo(S, n) == UNION {[1..k -> S] : k \in 0..n}

\* characters of request files: 'Q' (a base64 digit), '=' (padding), '!' (no digit)
FileAlphabet == {81, 61, 33}

\* characters of request texts: 'h'
TextAlphabet == {104}

\* characters of upstream completions: ' ' and 'B'
OutAlphabet == {32, 66}

\* "de", a language given in the query string
QueryLangs == {<<100, 101>>}

\* "fr", a language given in the body
BodyLangs == {<<102, 114>>}

\* 'en'
DefaultLang == <<101, 110>>

\* "French"
French == <<70, 114, 101, 110, 99, 104>>

\* "Translate the following text to "
PromptHead == <<84, 114, 97, 110, 115, 108, 97, 116, 101, 32, 116, 104, 101, 32, 102, 111, 108, 108, 111, 119, 105, 110, 103, 32, 116, 101, 120, 116, 32, 116, 111, 32>>

\* ":\n\n"
PromptSep == <<58, 10, 10>>

\* "Translate this text to French:\n"
IndexPromptHead == <<84, 114, 97, 110, 115, 108, 97, 116, 101, 32, 116, 104, 105, 115, 32, 116, 101, 120, 116, 32, 116, 111, 32, 70, 114, 101, 110, 99, 104, 58, 10>>

\* "\n"
Newline == <<10>>

(* ----------------- Buffer.from(s, 'base64').toString('utf8') ---------- *)

\* the value of a base64 digit (standard and URL-safe), 64 for any other character
unbase64(c) ==
    IF c >= 65 /\ c <= 90 THEN c - 65
    ELSE IF c >= 97 /\ c <= 122 THEN c - 71
    ELSE IF c >= 48 /\ c <= 57 THEN c + 4
    ELSE IF c = 43 \/ c = 45 THEN 62
    ELSE IF c = 47 \/ c = 95 THEN 63
    ELSE 64

\* the digits the decoder consumes: characters that are no digit are skipped,
\* and the first '=' ends the decoding; nothing makes the decoder throw
RECURSIVE Sextets(_)
Sextets(s) ==
    IF s = <<>> THEN <<>>
    ELSE IF Head(s) = 61 THEN <<>>
    ELSE IF unbase64(Head(s)) < 64 THEN <<unbase64(Head(s))>> \o Sextets(Tail(s))
    ELSE Sextets(Tail(s))

\* four digits give three bytes, three give two, two give one, one gives none
RECURSIVE SextetsToBytes(_)
SextetsToBytes(q) ==
    IF Len(q) < 2 THEN <<>>
    ELSE LET b1 == q[1] * 4 + q[2] \div 16
         IN IF Len(q) = 2 THEN <<b1>>
            ELSE LET b2 == (q[2] % 16) * 16 + q[3] \div 4
                 IN IF Len(q) = 3 THEN <<b1, b2>>
                    ELSE <<b1, b2, (q[3] % 4) * 64 + q[4]>>
                         \o SextetsToBytes(SubSeq(q, 5, Len(q)))

Base64Decode(s) == SextetsToBytes(Sextets(s))

\* UTF-8 decoding of one- and two-byte sequences; any other byte becomes U+FFFD.
\* (The files of FileAlphabet decode to bytes below 0xE0, so longer sequences
\* do not arise.)
RECURSIVE Utf8Decode(_)
Utf8Decode(b) ==
    IF b = <<>> THEN <<>>
    ELSE IF b[1] < 128 THEN <<b[1]>> \o Utf8Decode(Tail(b))
    ELSE IF b[1] >= 194 /\ b[1] <= 223 /\ Len(b) >= 2 /\ b[2] >= 128 /\ b[2] <= 191
         THEN <<(b[1] - 192) * 64 + (b[2] - 128)>> \o Utf8Decode(SubSeq(b, 3, Len(b)))
    ELSE <<65533>> \o Utf8Decode(Tail(b))

(* ------------------------- String.prototype.trim ---------------------- *)

IsSpace(c) ==
    c \in {9, 10, 11, 12, 13, 32, 160, 5760, 8232, 8233, 8239, 8287, 12288, 65279}
    \/ (c >= 8192 /\ c <= 8202)

RECURSIVE TrimStart(_)
TrimStart(s) ==
    IF s # <<>> /\ IsSpace(Head(s)) THEN TrimStart(Tail(s)) ELSE s

RECURSIVE TrimEnd(_)
TrimEnd(s) ==
    IF s # <<>> /\ IsSpace(s[Len(s)]) THEN TrimEnd(SubSeq(s, 1, Len(s) - 1)) ELSE s

Trim(s) == TrimEnd(TrimStart(s))

(* ------------------------------ values -------------------------------- *)

Variants == {"index", "part_000", "part_001"}

\* statuses the endpoint answers with
Statuses == {200, 404}

Is2xx(status) == status >= 200 /\ status < 300

\* what the JSON parser makes of the endpoint's body:
\*   "notjson"    no JSON document
\*   "nochoices"  an object without `choices`
\*   "empty"      { choices: [] }
\*   "notext"     { choices: [ {} ] }
\*   "text"       { choices: [ { text: <text> } ] }
UpBody(kind, text) == [kind |-> kind, text |-> text]

NoUpBody == UpBody("none", <<>>)

UpBodies ==
    {UpBody(k, <<>>) : k \in {"notjson", "nochoices", "empty", "notext"}}
    \cup {UpBody("text", t) : t \in SeqsUpTo(OutAlphabet, MaxOutLen)}

\* an error message: what kind of error it is, and the upstream status and the
\* upstream body when the message quotes them (0 and <<>> when it does not)
Msg(kind, status, data) == [kind |-> kind, status |-> status, data |-> data]

\* context.res: status 0 stands for a context.res that was never assigned.
\* shape is "object" for a JSON object, "string" for a bare string, "html" for
\* the page; translation, error and prompt are the object's fields when present.
Res(status, shape, translation, error, echo) ==
    [status |-> status, shape |-> shape, translation |-> translation,
     error |-> error, prompt |-> echo]

NoRes == Res(0, "none", Absent, Absent, Absent)

ErrorRes(status, msg) == Res(status, "object", Absent, Some(msg), Absent)

Requests ==
    [method : {"POST"}, parseOk : {TRUE},
     text : {Absent} \cup {Some(t) : t \in SeqsUpTo(TextAlphabet, MaxTextLen)},
     file : {Absent} \cup {Some(f) : f \in SeqsUpTo(FileAlphabet, MaxFileLen)},
     queryLang : {Absent} \cup {Some(l) : l \in QueryLangs},
     bodyLang : {Absent} \cup {Some(l) : l \in BodyLangs}]

\* a request without body or query
EmptyRequest(method, parseOk) ==
    [method |-> method, parseOk |-> parseOk, text |-> Absent, file |-> Absent,
     queryLang |-> Absent, bodyLang |-> Absent]

Init ==
    /\ variant \in Variants
    /\ \/ req \in Requests
       \/ variant = "index" /\ req = EmptyRequest("GET", TRUE)
       \/ variant = "index" /\ req = EmptyRequest("POST", FALSE)
    /\ pc = "received"
    /\ call = "none"
    /\ upStatus = 0
    /\ upBody = NoUpBody
    /\ prompt = Absent
    /\ calls = 0
    /\ res = NoRes
    /\ resWrites = 0

(* ----------------- steps shared by the handlers' bodies --------------- *)

\* context.res = r, and the handler returns
Respond(r) ==
    /\ res' = r
    /\ resWrites' = resWrites + 1
    /\ pc' = "responded"

\* the one outbound POST carrying prompt p; the handler then awaits it
Forward(p) ==
    /\ prompt' = Some(p)
    /\ calls' = calls + 1
    /\ call' = "sent"
    /\ pc' = "forwarded"

(* ------------------------- the completion endpoint --------------------- *)

\* the request fails before any response arrives (refused, reset, DNS ...):
\* the client request emits 'error'
TransportError ==
    /\ call = "sent"
    /\ call' = "error"
    /\ UNCHANGED <<variant, req, pc, upStatus, upBody, prompt, calls, res, resWrites>>

\* the response's status line and headers arrive
ResponseHeaders ==
    /\ call = "sent"
    /\ \E s \in Statuses : upStatus' = s
    /\ call' = "headers"
    /\ UNCHANGED <<variant, req, pc, upBody, prompt, calls, res, resWrites>>

\* the whole body has arrived: the response emits 'end'
ResponseEnd ==
    /\ call = "headers"
    /\ \E b \in UpBodies : upBody' = b
    /\ call' = "ended"
    /\ UNCHANGED <<variant, req, pc, upStatus, prompt, calls, res, resWrites>>

\* the socket fails while the body streams: the client request emits 'error',
\* the response never emits 'end'
ResponseReset ==
    /\ call = "headers"
    /\ call' = "reset"
    /\ UNCHANGED <<variant, req, pc, upStatus, upBody, prompt, calls, res, resWrites>>

\* the peer closes the connection while the body streams: the response emits
\* 'aborted' and 'close' (and 'error' only to listeners of the response); the
\* client request emits no 'error' and the response never emits 'end'
ResponseClosed ==
    /\ call = "headers"
    /\ call' = "closed"
    /\ UNCHANGED <<variant, req, pc, upStatus, upBody, prompt, calls, res, resWrites>>

Settled == {"ended", "error", "reset", "closed"}

(* ------------------------------ src/index.js -------------------------- *)

\* promptText: the uploaded file's content, then the text field, newline-joined
IndexPromptText(r) ==
    LET fileContent == IF r.file # Absent THEN Utf8Decode(r.file[1]) ELSE <<>>
    IN IF r.text # Absent
       THEN fileContent \o (IF fileContent # <<>> THEN Newline ELSE <<>>) \o r.text[1]
       ELSE fileContent

\* GET: the static page, or the catch block when it cannot be read
IndexGet ==
    /\ variant = "index" /\ pc = "received" /\ req.method = "GET"
    /\ \E readable \in BOOLEAN :
          Respond(IF readable THEN Res(200, "html", Absent, Absent, Absent)
                  ELSE ErrorRes(500, Msg("ReadError", 0, Absent)))
    /\ UNCHANGED <<variant, req, call, upStatus, upBody, prompt, calls>>

\* POST: the multipart parse settles
IndexParse ==
    /\ variant = "index" /\ pc = "received" /\ req.method # "GET"
    /\ IF req.parseOk
       THEN pc' = "parsed" /\ UNCHANGED <<res, resWrites>>
       ELSE Respond(ErrorRes(500, Msg("ParseError", 0, Absent)))
    /\ UNCHANGED <<variant, req, call, upStatus, upBody, prompt, calls>>

\* POST, after the parse: build promptText, reject it when empty, else post it
IndexValidate ==
    /\ variant = "index" /\ pc = "parsed"
    /\ LET promptText == IndexPromptText(req)
       IN IF promptText = <<>>
          THEN /\ Respond(ErrorRes(400, Msg("NoInput", 0, Absent)))
               /\ UNCHANGED <<call, prompt, calls>>
          ELSE /\ Forward(IndexPromptHead \o promptText)
               /\ UNCHANGED <<res, resWrites>>
    /\ UNCHANGED <<variant, req, upStatus, upBody>>

\* what axios.post settles with, mapped to context.res by the code after the
\* await and by the catch block.  axios rejects on a transport failure, on an
\* aborted response stream and on a status outside 2xx; it resolves with the
\* parsed body, or with the raw string when the body is no JSON.
IndexResult(r, c, status, body) ==
    IF c = "error" THEN ErrorRes(500, Msg("Transport", 0, Absent))
    ELSE IF c \in {"reset", "closed"} THEN ErrorRes(500, Msg("Aborted", 0, Absent))
    ELSE IF ~Is2xx(status) THEN ErrorRes(500, Msg("AxiosStatus", status, Absent))
    ELSE IF body.kind \in {"notjson", "nochoices", "empty"}
         THEN ErrorRes(500, Msg("TypeError", 0, Absent))
    ELSE IF body.kind = "notext"
         THEN Res(200, "object", Absent, Absent, Some(IndexPromptText(r)))
    ELSE Res(200, "object", Some(body.text), Absent, Some(IndexPromptText(r)))

IndexSettle ==
    /\ variant = "index" /\ pc = "forwarded" /\ call \in Settled
    /\ Respond(IndexResult(req, call, upStatus, upBody))
    /\ UNCHANGED <<variant, req, call, upStatus, upBody, prompt, calls>>

(* --------------------------- src/unnamed/part_000 --------------------- *)

\* const targetLanguage = req.query.lang || 'en'
Part000Language(r) == IF Truthy(r.queryLang) THEN r.queryLang[1] ELSE DefaultLang

\* the text, else the decoded file; the caller has checked that one is truthy
TextToTranslate(r) ==
    IF Truthy(r.text) THEN r.text[1] ELSE Utf8Decode(Base64Decode(r.file[1]))

Part000Start ==
    /\ variant = "part_000" /\ pc = "received"
    /\ IF Truthy(req.text) \/ Truthy(req.file)
       THEN /\ Forward(PromptHead \o Part000Language(req) \o PromptSep
                       \o TextToTranslate(req))
            /\ UNCHANGED <<res, resWrites>>
       ELSE /\ Respond(Res(400, "string", Absent, Absent, Absent))
            /\ UNCHANGED <<call, prompt, calls>>
    /\ UNCHANGED <<variant, req, upStatus, upBody>>

\* the 'end' listener: JSON.parse(data), json.choices[0].text.trim(); the
\* status code is not looked at
Part000Result(status, body) ==
    IF body.kind = "notjson" THEN ErrorRes(500, Msg("SyntaxError", 0, Absent))
    ELSE IF body.kind \in {"nochoices", "empty", "notext"}
         THEN ErrorRes(500, Msg("TypeError", 0, Absent))
    ELSE Res(200, "object", Some(Trim(body.text)), Absent, Absent)

Part000OnEnd ==
    /\ variant = "part_000" /\ pc = "forwarded" /\ call = "ended"
    /\ Respond(Part000Result(upStatus, upBody))
    /\ UNCHANGED <<variant, req, call, upStatus, upBody, prompt, calls>>

\* reqApi.on('error', reject), then the catch block
Part000OnError ==
    /\ variant = "part_000" /\ pc = "forwarded" /\ call \in {"error", "reset"}
    /\ Respond(ErrorRes(500, Msg("Transport", 0, Absent)))
    /\ UNCHANGED <<variant, req, call, upStatus, upBody, prompt, calls>>

(* --------------------------- src/unnamed/part_001 --------------------- *)

\* 'en', overridden by body.lang when that is truthy
Part001Language(r) == IF Truthy(r.bodyLang) THEN r.bodyLang[1] ELSE DefaultLang

Part001Start ==
    /\ variant = "part_001" /\ pc = "received"
    /\ IF Truthy(req.text) \/ Truthy(req.file)
       THEN /\ Forward(PromptHead \o Part001Language(req) \o PromptSep
                       \o TextToTranslate(req))
            /\ UNCHANGED <<res, resWrites>>
       ELSE /\ Respond(Res(400, "string", Absent, Absent, Absent))
            /\ UNCHANGED <<call, prompt, calls>>
    /\ UNCHANGED <<variant, req, upStatus, upBody>>

\* the 'end' listener: the status check, then the parse and the choices check
Part001Result(status, body) ==
    IF ~Is2xx(status) THEN ErrorRes(500, Msg("HTTP", status, Some(body)))
    ELSE IF body.kind \in {"notjson", "notext"}
         THEN ErrorRes(500, Msg("InvalidJSON", 0, Some(body)))
    ELSE IF body.kind \in {"nochoices", "empty"}
         THEN ErrorRes(500, Msg("NoChoices", 0, Absent))
    ELSE Res(200, "object", Some(Trim(body.text)), Absent, Absent)

Part001OnEnd ==
    /\ variant = "part_001" /\ pc = "forwarded" /\ call = "ended"
    /\ Respond(Part001Result(upStatus, upBody))
    /\ UNCHANGED <<variant, req, call, upStatus, upBody, prompt, calls>>

\* a variant of Part001OnError that posts the prompt once more after the first
\* failure before it gives up
Part001OnErrorRetry ==
    /\ variant = "part_001" /\ pc = "forwarded" /\ call \in {"error", "reset"}
    /\ IF calls < 2
       THEN Forward(prompt[1]) /\ UNCHANGED <<res, resWrites>>
       ELSE /\ Respond(ErrorRes(500, Msg("Transport", 0, Absent)))
            /\ UNCHANGED <<call, prompt, calls>>
    /\ UNCHANGED <<variant, req, upStatus, upBody>>

\* reqApi.on('error', reject), then the catch block
Part001OnError ==
    /\ variant = "part_001" /\ pc = "forwarded" /\ call \in {"error", "reset"}
    /\ Respond(ErrorRes(500, Msg("Transport", 0, Absent)))
    /\ UNCHANGED <<variant, req, call, upStatus, upBody, prompt, calls>>

(* ---------------------------- specification --------------------------- *)

\* the steps the JavaScript runtime takes for the handler
HandlerStep ==
    \/ IndexGet
    \/ IndexParse
    \/ IndexValidate
    \/ IndexSettle
    \/ Part000Start
    \/ Part000OnEnd
    \/ Part000OnError
    \/ Part001Start
    \/ Part001OnEnd
    \/ Part001OnError

Next ==
    \/ TransportError
    \/ ResponseHeaders
    \/ ResponseEnd
    \/ ResponseReset
    \/ ResponseClosed
    \/ IndexGet
    \/ IndexParse
    \/ IndexValidate
    \/ IndexSettle
    \/ Part000Start
    \/ Part000OnEnd
    \/ Part000OnError
    \/ Part001Start
    \/ Part001OnEnd
    \/ Part001OnError

Spec == Init /\ [][Next]_vars

\* the event loop runs every callback that is ready; nothing obliges the
\* endpoint to answer
FairSpec == Spec /\ WF_vars(HandlerStep)

(* ------------------------ vocabulary of the claims --------------------- *)

\* needle occurs in hay as a contiguous run
Contains(hay, needle) ==
    \E i \in 0..Len(hay) :
        i + Len(needle) <= Len(hay) /\ SubSeq(hay, i + 1, i + Len(needle)) = needle

\* well-formed base64: a positive multiple of four characters, digits only,
\* closed by at most two '=', the bits beyond the last byte zero
ValidBase64(s) ==
    /\ Len(s) > 0
    /\ Len(s) % 4 = 0
    /\ LET pad == IF s[Len(s)] # 61 THEN 0 ELSE IF s[Len(s) - 1] # 61 THEN 1 ELSE 2
           n == Len(s) - pad
       IN /\ \A i \in 1..n : unbase64(s[i]) < 64
          /\ pad = 1 => unbase64(s[n]) % 4 = 0
          /\ pad = 2 => unbase64(s[n]) % 16 = 0

\* the text a request's file stands for: the upload's content for "index",
\* the base64-decoded string for the other two
FileContent(v, r) ==
    IF r.file = Absent THEN <<>>
    ELSE IF v = "index" THEN Utf8Decode(r.file[1])
    ELSE Utf8Decode(Base64Decode(r.file[1]))

\* a POST the handler can read that yields no content: no text, and no file or
\* a file that decodes to ""
NoContent(v, r) ==
    r.method = "POST" /\ r.parseOk /\ ~Truthy(r.text) /\ FileContent(v, r) = <<>>

\* a POST that yields content and reaches the handler's body
HasContent(v, r) ==
    r.method = "POST" /\ r.parseOk /\ (Truthy(r.text) \/ FileContent(v, r) # <<>>)

MalformedFile(v, r) ==
    v # "index" /\ r.file # Absent /\ r.file[1] # <<>> /\ ~ValidBase64(r.file[1])

CarriesValidFile(v, r) ==
    r.file # Absent /\ (v = "index" \/ ValidBase64(r.file[1]))

Past(places) == pc \in places

\* the languages the request names, in the query string or in the body
SuppliedLangs(r) ==
    {l \in QueryLangs \cup BodyLangs : r.queryLang = Some(l) \/ r.bodyLang = Some(l)}

\* the combined inputs the data model allows for a request
CombinedInputs(v, r) ==
    LET t == IF r.text = Absent THEN <<>> ELSE r.text[1]
        f == FileContent(v, r)
    IN {t, f, f \o Newline \o t, t \o Newline \o f}

(* -------------------------------- claims ------------------------------ *)

\* C1: a POST in which neither text nor the decoded file yields non-empty
\* content makes no outbound call and ends with status 400.
C1_NoContentIs400 ==
    NoContent(variant, req) =>
        /\ calls = 0
        /\ pc = "responded" => res.status = 400

\* C2: a request whose file is a malformed base64 string, with no text, is
\* answered 400 and never forwarded to the completion endpoint.
C2_MalformedBase64Is400 ==
    (MalformedFile(variant, req) /\ ~Truthy(req.text)) =>
        /\ calls = 0
        /\ pc = "responded" => res.status = 400

\* C3: for a request that passes validation, when the outbound call returns a status outside 2xx the handler answers
\* 500 with a message naming the upstream status or body, whatever the body is.
C3_Non2xxIs500 ==
    (HasContent(variant, req) /\ pc = "responded" /\ call = "ended" /\ ~Is2xx(upStatus)) =>
        /\ res.status = 500
        /\ res.error # Absent
        /\ res.error[1].status = upStatus \/ res.error[1].data = Some(upBody)

\* C4: for a request that passes validation, a 2xx upstream response with choices[0].text gives status 200 and a
\* translation equal to that text trimmed, in every variant.
C4_TranslationTrimmed ==
    (/\ HasContent(variant, req)
     /\ pc = "responded" /\ call = "ended" /\ Is2xx(upStatus) /\ upBody.kind = "text") =>
        /\ res.status = 200
        /\ res.translation = Some(Trim(upBody.text))

\* C5: for a request that passes validation, an unreachable endpoint, a body that is no JSON, or JSON without a
\* usable candidate gives status 500 with body { error }, never 200.
C5_UnusableUpstreamIs500 ==
    (/\ HasContent(variant, req)
     /\ pc = "responded"
     /\ \/ call = "error"
        \/ call = "ended" /\ upBody.kind \in {"notjson", "nochoices", "empty", "notext"}) =>
        /\ res.status = 500
        /\ res.shape = "object"
        /\ res.error # Absent

\* C6: the content of a valid file is part of the prompt sent upstream, and
\* when the request also has a non-empty text the prompt holds both,
\* newline-joined.
C6_FileInPrompt ==
    (CarriesValidFile(variant, req) /\ prompt # Absent) =>
        LET f == FileContent(variant, req)
        IN /\ Contains(prompt[1], f)
           /\ Truthy(req.text) =>
                 \/ Contains(prompt[1], f \o Newline \o req.text[1])
                 \/ Contains(prompt[1], req.text[1] \o Newline \o f)

\* C7: an invocation makes at most one outbound call: none when it answers
\* 400, exactly one once a request with content is past validation, and no
\* second one after the first has failed.
C7_AtMostOneCall ==
    /\ calls <= 1
    /\ res.status = 400 => calls = 0
    /\ (HasContent(variant, req) /\ Past({"forwarded", "responded"})) => calls = 1
    /\ (call \in Settled /\ pc = "responded") => calls = 1

\* C7 witness: the one call failed in transport and the handler answered
\* 500 without calling again
C7_Witness ==
    pc = "responded" /\ call = "error" /\ calls = 1 /\ res.status = 500

\* C8: a completed POST leaves status 200, 400 or 500 with a JSON object body:
\* a string translation on 200, an error field on 400 and 500.
C8_ResponseShape ==
    (pc = "responded" /\ req.method = "POST") =>
        /\ res.status \in {200, 400, 500}
        /\ res.shape = "object"
        /\ res.status = 200 => res.translation # Absent
        /\ res.status \in {400, 500} => res.error # Absent

\* C9: the prompt is "Translate the following text to <lang>:\n\n<input>" with
\* <lang> the language the request supplies (query or body), and the
\* variant's default only when the request supplies none.
C9_PromptLanguage ==
    prompt # Absent =>
        \E l \in (IF SuppliedLangs(req) # {} THEN SuppliedLangs(req)
                  ELSE {DefaultLang, French}) :
            \E input \in CombinedInputs(variant, req) :
                prompt[1] = PromptHead \o l \o PromptSep \o input

\* C10: received -> validated -> forwarded -> responded: context.res is set at
\* most once, for a forwarded request only after the outbound call has
\* settled, and once the call has settled in any way the handler responds:
\* it has responded already or a step of the handler is ready to run.
C10_RespondsOnceSettled ==
    /\ resWrites <= 1
    /\ (calls > 0 /\ res.status # 0) => call \in Settled
    /\ call \in Settled => (pc = "responded" \/ ENABLED HandlerStep)

\* C10, as a property of behaviours under FairSpec: once the call has settled
\* in any way, context.res is eventually set.
C10_EventuallyResponds ==
    /\ [](resWrites <= 1)
    /\ []((calls > 0 /\ res.status # 0) => call \in Settled)
    /\ (call \in Settled) ~> (pc = "responded")

====
